---- MODULE Spec2Model ----
(***************************************************************************)
(* Model of src/main.py: the AutomationWorker.run orchestration over the   *)
(* BrowserDriver (launch, login, wait_for_page_to_settle,                  *)
(* create_standard_user, close) and the MainWindow handlers that start,    *)
(* observe and cancel it.                                                  *)
(*                                                                         *)
(* The worker thread and the UI thread interleave at the granularity of    *)
(* one browser page operation.  Every Playwright call either returns or    *)
(* raises; which one is a nondeterministic choice of the environment.      *)
(* progress_update lines are kept in the history variable events; their    *)
(* slot (log_message) only appends to a text widget and is not queued.     *)
(***************************************************************************)
EXTENDS Integers, Sequences, FiniteSets, TLC

\* Bounds of the model.
MaxLvc == 2
MaxStd == 2
MaxNameLen == 2
MaxCurrencyLen == 3

\* parse_credentials_file: "if len(lines) < 2".
MinCredLines == 2

VARIABLES
    \* ---- MainWindow ----
    window,             \* "open", "closing" (closeEvent blocked in thread.wait()), "closed"
    controls_enabled,   \* toggle_controls state (start button included)
    automation_thread,  \* "none" or "running" (QThread.isRunning())
    worker,             \* "none" or "alive" (self.worker)
    uiQueue,            \* queued automation_error / automation_finished signals
    dialog,             \* message box shown since the last start: "none", "input",
                        \* "file", "automation"
    preflight,          \* the input files the last click on start read
    \* ---- AutomationWorker ----
    pc,                 \* position of run()
    is_running,         \* the cooperative cancel flag
    debug_mode,
    lvc_users,          \* sequence of records
    standard_users,     \* sequence of records
    batch,              \* which for-loop is executing: "lvc" or "std"
    idx,                \* position of the for-loop iterator
    step,               \* position inside login / create_standard_user
    exc,                \* exception in flight (caught by run's except clause)
    driver,             \* BrowserDriver fields playwright, browser, page (set or None)
    \* ---- history of the current run ----
    events,             \* signals emitted on the worker: progress, error, finished
    ops,                \* page operations issued, with their outcome
    calls,              \* calls / returns / raises of the driver's methods
    stopAt,             \* where run() was, and how many account-creation sequences
                        \* and phases it had started, when stop() cleared the flag
    \* ---- one create_standard_user call, with the field values spelled out ----
    user_details,       \* the record: Username, Postfix, Currency (strings)
    form                \* username and currency_code computed from it, and what
                        \* was typed into / selected on the page

uiVars == <<window, controls_enabled, automation_thread, worker, uiQueue, dialog,
           preflight>>
cfgVars == <<debug_mode, lvc_users, standard_users>>
loopVars == <<batch, idx, step>>
histVars == <<events, ops, calls, stopAt>>
formVars == <<user_details, form>>
runVars == <<window, controls_enabled, automation_thread, worker, uiQueue, dialog,
             preflight, pc, is_running, debug_mode, lvc_users, standard_users,
             batch, idx, step, exc, driver, events, ops, calls, stopAt>>
vars == <<window, controls_enabled, automation_thread, worker, uiQueue, dialog,
          preflight, user_details, form, pc, is_running, debug_mode, lvc_users,
          standard_users, batch, idx, step, exc, driver, events, ops, calls, stopAt>>

----------------------------------------------------------------------------
\* Records and small helpers.

Last(s) == s[Len(s)]

\* The three signals of AutomationWorker.  An error message carries the type
\* name and the details of the exception; so does the "[ERROR]" progress line.
Prog(tag) == [kind |-> "progress", tag |-> tag, type |-> "", detail |-> ""]
ErrorLine(e) == [kind |-> "progress", tag |-> "[ERROR]", type |-> e.type, detail |-> e.detail]
ErrorSignal(e) == [kind |-> "error", tag |-> "", type |-> e.type, detail |-> e.detail]
FinishedSignal == [kind |-> "finished", tag |-> "", type |-> "", detail |-> ""]

\* progress_callback applied to each line of tags, in order.
Emit(evs, tags) == evs \o [k \in 1..Len(tags) |-> Prog(tags[k])]

NoExc == [type |-> "", detail |-> ""]
Exc(type, detail) == [type |-> type, detail |-> detail]

NotStopped == [pc |-> "", created |-> 0, phases |-> 0]

NoUser == [batch |-> "", pos |-> 0]
Users(b, n) == [k \in 1..n |-> [batch |-> b, pos |-> k]]

Call(fn, u) == [ev |-> "call", fn |-> fn, user |-> u]
Ret(fn, u) == [ev |-> "ret", fn |-> fn, user |-> u]
Raise(fn, u) == [ev |-> "raise", fn |-> fn, user |-> u]

\* A page operation with its result: "ok", "timeout" or "failure".
Op(s, res) == [op |-> s.op, target |-> s.target, result |-> res]

\* obj: self.driver is set; the other fields are those of BrowserDriver.
NoDriver == [obj |-> FALSE, playwright |-> FALSE, browser |-> FALSE, page |-> FALSE]
NewDriver == [obj |-> TRUE, playwright |-> FALSE, browser |-> FALSE, page |-> FALSE]

\* One scripted page operation: the progress lines emitted before it, the
\* operation and its target, the progress lines emitted once it returned,
\* the driver method it is nested in ("" when inline), and resume: 0 when an
\* exception of the operation leaves the method, otherwise the step at which
\* the method goes on after the except clause of the try block around it.
Step(pre, op, target, post, fn, resume) ==
    [pre |-> pre, op |-> op, target |-> target, post |-> post, fn |-> fn,
     resume |-> resume]

\* How a Playwright call can fail: every scripted call is given a timeout; a
\* navigation can also fail outright.
Causes(op) ==
    IF op \in {"goto", "wait_for_url", "wait_for_load_state"}
    THEN {"timeout", "failure"}
    ELSE {"timeout"}

\* type(e).__name__ of the exception: expect(...) raises AssertionError, an
\* expired timeout of a page call TimeoutError, any other failure Error.
TypeName(op, cause) ==
    IF op = "expect" THEN "AssertionError"
    ELSE IF cause = "timeout" THEN "TimeoutError"
    ELSE "Error"

----------------------------------------------------------------------------
\* BrowserDriver.login, after its page check: one entry per page operation.

LoginSteps ==
    << Step(<<"Navigating to login page">>, "goto", "login_url", <<>>, "", 0),
       Step(<<"Entering email...">>, "expect", "email", <<>>, "", 0),
       Step(<<>>, "fill", "email", <<>>, "", 0),
       Step(<<"Clicking 'Next' button...">>, "expect", "next", <<>>, "", 0),
       Step(<<>>, "click", "next", <<"Email submitted.">>, "", 0),
       Step(<<"Entering password...">>, "expect", "password", <<>>, "", 0),
       Step(<<>>, "fill", "password", <<>>, "", 0),
       Step(<<"Clicking 'Verify' button...">>, "expect", "verify", <<>>, "", 0),
       Step(<<>>, "click", "verify", <<"Password submitted.">>, "", 0),
       Step(<<"Looking for MFA options...">>, "expect", "push_option", <<>>, "", 13),
       Step(<<"Push notification option found. Clicking it.">>, "click", "push_option",
            <<>>, "", 13),
       Step(<<"Waiting for push sent confirmation...">>, "expect", "push_sent",
            <<"Confirmation received: Push notification sent.">>, "", 13),
       Step(<<"Waiting for Multi-Factor Authentication (MFA)...",
              ">>> Please approve the notification on your phone. <<<">>,
            "wait_for_url", "not_okta", <<"MFA approved. Login successful!">>, "", 0) >>

\* The first step after the try/except of login: the approval wait.
ApprovalStep == 13

\* BrowserDriver.wait_for_page_to_settle.
SettleStep ==
    Step(<<"Waiting for page to fully load...">>, "wait_for_load_state", "networkidle",
         <<"Page has settled.">>, "wait_for_page_to_settle", 0)

\* BrowserDriver.create_standard_user, after its page check.
CreateSteps ==
    << Step(<<"Navigating to Create User page">>, "goto", "create_url", <<>>, "", 0),
       SettleStep,
       Step(<<"Creating user", "  - Player Type: Skipped.", "  - Setting Market...">>,
            "expect", "market_dropdown", <<>>, "", 0),
       Step(<<>>, "click", "market_dropdown", <<>>, "", 0),
       Step(<<>>, "click", "market_option", <<>>, "", 0),
       Step(<<"  - Setting Product...">>, "expect", "product_dropdown", <<>>, "", 0),
       Step(<<>>, "click", "product_dropdown", <<>>, "", 0),
       Step(<<>>, "click", "product_option", <<>>, "", 0),
       Step(<<"  - Filling Username...">>, "expect", "username", <<>>, "", 0),
       Step(<<>>, "fill", "username", <<>>, "", 0),
       Step(<<"  - Filling Password...">>, "expect", "user_password", <<>>, "", 0),
       Step(<<>>, "fill", "user_password", <<>>, "", 0),
       Step(<<"  - Setting Currency...">>, "expect", "currency", <<>>, "", 0),
       Step(<<>>, "select_option", "currency", <<>>, "", 0),
       Step(<<"  - Clicking 'Create Account'...">>, "expect", "create_button", <<>>, "",
            0),
       Step(<<>>, "click", "create_button", <<>>, "", 0),
       Step(<<>>, "expect", "success_text", <<"Successfully created user">>, "", 0) >>

----------------------------------------------------------------------------
\* The input files of a pre-flight check: the lines of the credentials file
\* (empty, one line, e-mail and password) and what the user-data workbook
\* looks like.
CredFiles == {<<>>, <<"email">>, <<"email", "password">>}
TableFiles == {"ok", "unreadable", "no_sheet", "lvc_headers_missing",
               "std_headers_missing"}
NoPreflight == [lines |-> <<>>, table |-> ""]

\* A record with its three fields as strings (sequences of characters); the
\* local variables username and currency_code; the value typed into the
\* username field and the label selected in the currency dropdown.
NoDetails == [Username |-> <<>>, Postfix |-> <<>>, Currency |-> <<>>]
NoForm == [stage |-> "none", username |-> <<>>, currency_code |-> <<>>,
           filled |-> <<>>, selected |-> <<>>]

\* The window after construction, no worker yet.
InitRun ==
    /\ window = "open"
    /\ controls_enabled = TRUE
    /\ automation_thread = "none"
    /\ worker = "none"
    /\ uiQueue = <<>>
    /\ dialog = "none"
    /\ preflight = NoPreflight
    /\ pc = "idle"
    /\ is_running = FALSE
    /\ debug_mode = FALSE
    /\ lvc_users = <<>>
    /\ standard_users = <<>>
    /\ batch = ""
    /\ idx = 0
    /\ step = 0
    /\ exc = NoExc
    /\ driver = NoDriver
    /\ events = <<>>
    /\ ops = <<>>
    /\ calls = <<>>
    /\ stopAt = NotStopped

Init ==
    /\ InitRun
    /\ user_details = NoDetails
    /\ form = NoForm

----------------------------------------------------------------------------
\* MainWindow.

\* Variant of toggle_controls that leaves the controls enabled.
toggle_controls_staysOn(enabled) == controls_enabled' = TRUE

\* toggle_controls: the start button and the input widgets, all at once.
toggle_controls(enabled) == controls_enabled' = enabled

\* toggle_controls(False); QThread and AutomationWorker created (is_running
\* True, driver None); automation_thread.start().
StartWorker(m, n, dbg) ==
    /\ toggle_controls(FALSE)
    /\ automation_thread' = "running"
    /\ worker' = "alive"
    /\ debug_mode' = dbg
    /\ lvc_users' = Users("lvc", m)
    /\ standard_users' = Users("std", n)
    /\ is_running' = TRUE
    /\ driver' = NoDriver
    /\ pc' = "started"
    /\ batch' = ""
    /\ idx' = 0
    /\ step' = 0
    /\ exc' = NoExc
    /\ events' = <<>>
    /\ ops' = <<>>
    /\ calls' = <<>>
    /\ stopAt' = NotStopped
    /\ dialog' = "none"
    /\ UNCHANGED <<window, uiQueue, formVars>>

\* Variant of UserDataRaises without the header check of the Standard section.
UserDataRaises_lvcOnly(table) ==
    table \in {"unreadable", "no_sheet", "lvc_headers_missing"}

\* parse_credentials_file raises on a file of fewer than two lines.
CredentialsRaise(lines) == Len(lines) < MinCredLines

\* parse_user_data raises on a workbook that cannot be opened, that has no
\* Sheet1, or whose LVC or Standard section lacks a required header.
UserDataRaises(table) ==
    table \in {"unreadable", "no_sheet", "lvc_headers_missing", "std_headers_missing"}

\* The click on the start button.  filesChosen: both path labels hold a file;
\* passwordGiven: the new-user password is not empty; lines: what readlines()
\* returns for the credentials file; table: the user-data workbook; m, n: the
\* records parse_user_data returns; dbg: the debug checkbox.
start_automation ==
    /\ window = "open"
    /\ controls_enabled
    /\ \E filesChosen \in BOOLEAN, passwordGiven \in BOOLEAN:
          IF ~filesChosen \/ ~passwordGiven
          THEN \* QMessageBox.warning and return
               /\ dialog' = "input"
               /\ preflight' = NoPreflight
               /\ UNCHANGED <<window, controls_enabled, automation_thread, worker,
                              uiQueue, pc, is_running, cfgVars, loopVars, exc,
                              driver, histVars>>
          ELSE \E lines \in CredFiles, table \in TableFiles:
                  /\ preflight' = [lines |-> lines, table |-> table]
                  /\ IF CredentialsRaise(lines) \/ UserDataRaises(table)
                     THEN \* a parser raised: QMessageBox.critical and return
                          /\ dialog' = "file"
                          /\ UNCHANGED <<window, controls_enabled, automation_thread,
                                         worker, uiQueue, pc, is_running, cfgVars,
                                         loopVars, exc, driver, histVars>>
                     ELSE \E m \in 0..MaxLvc, n \in 0..MaxStd, dbg \in BOOLEAN:
                             StartWorker(m, n, dbg)
    /\ UNCHANGED formVars

\* Slot of the queued automation_error signal.
on_automation_error ==
    /\ window = "open"
    /\ uiQueue # <<>>
    /\ Head(uiQueue) = "error"
    /\ uiQueue' = Tail(uiQueue)
    /\ dialog' = "automation"
    /\ UNCHANGED <<window, controls_enabled, automation_thread, worker, preflight,
                   formVars, pc,
                   is_running, cfgVars, loopVars, exc, driver, histVars>>

\* Slot of the queued automation_finished signal: quit and join the thread,
\* re-enable the controls, drop thread and worker.  The worker object, its
\* driver and what it logged are gone with it.
on_automation_finished ==
    /\ window = "open"
    /\ uiQueue # <<>>
    /\ Head(uiQueue) = "finished"
    /\ uiQueue' = Tail(uiQueue)
    /\ toggle_controls(TRUE)
    /\ automation_thread' = "none"
    /\ worker' = "none"
    /\ pc' = "idle"
    /\ is_running' = FALSE
    /\ debug_mode' = FALSE
    /\ lvc_users' = <<>>
    /\ standard_users' = <<>>
    /\ batch' = ""
    /\ idx' = 0
    /\ step' = 0
    /\ exc' = NoExc
    /\ driver' = NoDriver
    /\ events' = <<>>
    /\ ops' = <<>>
    /\ calls' = <<>>
    /\ stopAt' = NotStopped
    /\ UNCHANGED <<window, dialog, preflight, formVars>>

\* The driver-method calls of fn logged so far, and their number.
CallsOf(fn) == SelectSeq(calls, LAMBDA c: c.ev = "call" /\ c.fn = fn)
NumCreate == Len(CallsOf("create_standard_user"))

\* The phases of run() begun so far: launch, login, the settle wait of run()
\* (the one called right after login returned), and one per account-creation
\* sequence.
PhasesBegun ==
    Len(CallsOf("launch")) + Len(CallsOf("login")) + NumCreate +
    (IF \E k \in 2..Len(calls):
            /\ calls[k] = Call("wait_for_page_to_settle", NoUser)
            /\ calls[k - 1] = Ret("login", NoUser)
     THEN 1 ELSE 0)

\* Variant of stop that also tears the browser session down.
stop_closesDriver ==
    /\ events' = Emit(events, <<"Stopping process...">>)
    /\ is_running' = FALSE
    /\ stopAt' = [pc |-> pc, created |-> NumCreate, phases |-> PhasesBegun]
    /\ calls' = calls \o <<Call("close", NoUser), Ret("close", NoUser)>>

\* AutomationWorker.stop, called on the UI thread: the progress line is
\* emitted on the worker's signal, then the flag is cleared.  The driver is
\* left to the worker.
stop ==
    /\ events' = Emit(events, <<"Stopping process...">>)
    /\ is_running' = FALSE
    /\ stopAt' = [pc |-> pc, created |-> NumCreate, phases |-> PhasesBegun]
    /\ calls' = calls

\* run() has been left, by return or by an exception.
RunEnded == pc \in {"done", "crashed"}

\* closeEvent up to thread.wait(): with a running thread the worker is told
\* to stop and the UI thread blocks; otherwise the window closes at once.
closeEvent ==
    /\ window = "open"
    /\ IF automation_thread = "running"
       THEN /\ stop
            /\ window' = "closing"
       ELSE /\ window' = "closed"
            /\ UNCHANGED <<events, is_running, stopAt, calls>>
    /\ UNCHANGED <<controls_enabled, automation_thread, worker, uiQueue, dialog,
                   preflight, formVars, pc, cfgVars, loopVars, exc, driver, ops>>

\* thread.wait() returns once run() has been left; event.accept().
closeEvent_accept ==
    /\ window = "closing"
    /\ RunEnded
    /\ window' = "closed"
    /\ automation_thread' = "none"
    /\ UNCHANGED <<controls_enabled, worker, uiQueue, dialog, preflight, formVars,
                   pc, is_running, cfgVars, loopVars, exc, driver, histVars>>

----------------------------------------------------------------------------
\* AutomationWorker.run and the BrowserDriver methods it calls.

\* Variant of Checkpoint that does not look at the flag.
Checkpoint_ignored(next) == next

\* "if not self.is_running: return" in front of the next phase; the return
\* leaves the try block, so control passes to the finally clause.
Checkpoint(next) == IF is_running THEN next ELSE "finally"

\* Entry of run(): the driver object, the first progress lines, the first
\* checkpoint.
run_begin ==
    /\ pc = "started"
    /\ driver' = NewDriver
    /\ events' = Emit(events,
                      <<"Automation thread started.">> \o
                      (IF debug_mode THEN <<"--- DEBUG MODE ENABLED ---">> ELSE <<>>))
    /\ pc' = Checkpoint("launch")
    /\ UNCHANGED <<uiVars, formVars, is_running, cfgVars, loopVars, exc, ops, calls, stopAt>>

\* BrowserDriver.launch: sync_playwright().start(), chromium.launch(),
\* new_page(); each may raise and leaves the fields assigned so far.
launch ==
    /\ pc = "launch"
    /\ \E outcome \in {"ok", "start_raises", "launch_raises", "new_page_raises"}:
          /\ driver' = [driver EXCEPT !.playwright = outcome # "start_raises",
                                      !.browser = outcome \in {"ok", "new_page_raises"},
                                      !.page = (outcome = "ok")]
          /\ IF outcome = "ok"
             THEN /\ events' = Emit(events, <<"Launching browser...",
                                             "Browser launched successfully.">>)
                  /\ calls' = calls \o <<Call("launch", NoUser), Ret("launch", NoUser)>>
                  /\ exc' = exc
                  /\ pc' = Checkpoint("login")
             ELSE /\ events' = Emit(events, <<"Launching browser...">>)
                  /\ calls' = calls \o <<Call("launch", NoUser), Raise("launch", NoUser)>>
                  /\ exc' = Exc("Error", outcome)
                  /\ pc' = "except"
    /\ UNCHANGED <<uiVars, formVars, is_running, cfgVars, loopVars, ops, stopAt>>

\* Variant of Resume whose try block ends before the push-sent wait.
Resume_pushSentFatal(s) == IF s.target = "push_sent" THEN 0 ELSE s.resume

\* Variant of Resume that swallows a missing success text and returns.
Resume_swallowSuccess(s) ==
    IF s.target = "success_text" THEN Len(CreateSteps) + 1 ELSE s.resume

\* Variant of Resume whose try block begins in front of the Verify button.
Resume_verifyInTry(s) == IF s.target = "verify" THEN ApprovalStep ELSE s.resume

\* Where the method goes on when operation s raised inside a try block; 0
\* when no try block of the method encloses it.
Resume(s) == s.resume

\* Step k of the script steps of driver method fn (fn = "" when the script is
\* called from run() directly), working on record u; retPc is where run()
\* goes on once the method has returned.
RunStep(steps, k, fn, u, retPc) ==
    LET s == steps[k]
        enter == IF s.fn # "" THEN <<Call(s.fn, NoUser)>> ELSE <<>>
        leave == IF s.fn # "" THEN <<Ret(s.fn, NoUser)>> ELSE <<>>
        thrown == (IF s.fn # "" THEN <<Raise(s.fn, NoUser)>> ELSE <<>>) \o
                  (IF fn # "" THEN <<Raise(fn, u)>> ELSE <<>>)
        Goto(n, cs) ==
            IF n <= Len(steps)
            THEN /\ step' = n
                 /\ pc' = pc
                 /\ calls' = calls \o cs
            ELSE /\ step' = 0
                 /\ pc' = retPc
                 /\ calls' = calls \o cs \o (IF fn # "" THEN <<Ret(fn, u)>> ELSE <<>>)
    IN  \/ \* the operation returns
           /\ ops' = Append(ops, Op(s, "ok"))
           /\ events' = Emit(events, s.pre \o s.post)
           /\ exc' = exc
           /\ Goto(k + 1, enter \o leave)
        \/ \* the operation raises
           \E cause \in Causes(s.op):
              /\ ops' = Append(ops, Op(s, cause))
              /\ IF Resume(s) # 0
                 THEN \* caught by the except clause of the method
                      /\ events' = Emit(events, s.pre \o <<"[INFO] Assuming push was sent">>)
                      /\ exc' = exc
                      /\ Goto(Resume(s), <<>>)
                 ELSE \* leaves the method; caught by run()
                      /\ events' = Emit(events, s.pre)
                      /\ exc' = Exc(TypeName(s.op, cause), s.target)
                      /\ step' = 0
                      /\ pc' = "except"
                      /\ calls' = calls \o enter \o thrown

\* Entry of a driver method that starts with "if not self.page: raise".
EnterMethod(fn, u, stepPc) ==
    IF driver.page
    THEN /\ calls' = Append(calls, Call(fn, u))
         /\ step' = 1
         /\ exc' = exc
         /\ pc' = stepPc
    ELSE /\ calls' = calls \o <<Call(fn, u), Raise(fn, u)>>
         /\ step' = 0
         /\ exc' = Exc("Exception", "Browser is not launched")
         /\ pc' = "except"

\* self.driver.login(...): the page check.
login ==
    /\ pc = "login"
    /\ EnterMethod("login", NoUser, "login_step")
    /\ UNCHANGED <<uiVars, formVars, is_running, cfgVars, batch, idx, driver, events, ops, stopAt>>

\* Variant of AfterLogin that skips the settle wait.
AfterLogin_noSettle == Checkpoint("lvc_begin")

\* Where run() goes on after login returned.
AfterLogin == Checkpoint("settle")

\* One page operation of login.
login_step ==
    /\ pc = "login_step"
    /\ RunStep(LoginSteps, step, "login", NoUser, AfterLogin)
    /\ UNCHANGED <<uiVars, formVars, is_running, cfgVars, batch, idx, driver, stopAt>>

\* self.driver.wait_for_page_to_settle() of run(), and the checkpoint after it.
settle ==
    /\ pc = "settle"
    /\ RunStep(<<SettleStep>>, 1, "", NoUser, Checkpoint("lvc_begin"))
    /\ UNCHANGED <<uiVars, formVars, is_running, cfgVars, batch, idx, driver, stopAt>>

\* "Step 2" line and the start of the for loop over lvc_users.
lvc_begin ==
    /\ pc = "lvc_begin"
    /\ events' = Emit(events, <<"Step 2: Processing LVC users...">>)
    /\ batch' = "lvc"
    /\ idx' = 1
    /\ pc' = "lvc_loop"
    /\ UNCHANGED <<uiVars, formVars, is_running, cfgVars, step, exc, driver, ops, calls, stopAt>>

\* Variant of LoopHead that leaves the loop one record early.
LoopHead_offByOne(users, i, exit) ==
    IF i >= Len(users) \/ ~is_running THEN exit ELSE "create"

\* Variant of LoopHead without the cancel check.
LoopHead_noCheck(users, i, exit) ==
    IF i > Len(users) THEN exit ELSE "create"

\* Head of "for user in users: if not self.is_running: break": the loop is
\* left when the list is exhausted or the flag is down.
LoopHead(users, i, exit) ==
    IF i > Len(users) \/ ~is_running THEN exit ELSE "create"

lvc_loop ==
    /\ pc = "lvc_loop"
    /\ pc' = LoopHead(lvc_users, idx, "std_gate")
    /\ UNCHANGED <<uiVars, formVars, is_running, cfgVars, loopVars, exc, driver, histVars>>

\* The record the for loop is at.
CurrentUser == IF batch = "lvc" THEN lvc_users[idx] ELSE standard_users[idx]

\* self.driver.create_standard_user(...): the page check.
create ==
    /\ pc = "create"
    /\ EnterMethod("create_standard_user", CurrentUser, "create_step")
    /\ UNCHANGED <<uiVars, formVars, is_running, cfgVars, batch, idx, driver, events, ops, stopAt>>

\* Variant of create_step that gives the sequence up once the flag is down.
create_step_cancellable ==
    /\ pc = "create_step"
    /\ IF is_running
       THEN RunStep(CreateSteps, step, "create_standard_user", CurrentUser, "created")
       ELSE /\ pc' = "finally"
            /\ step' = 0
            /\ UNCHANGED <<exc, events, ops, calls>>
    /\ UNCHANGED <<uiVars, formVars, is_running, cfgVars, batch, idx, driver, stopAt>>

\* One page operation of create_standard_user.
create_step ==
    /\ pc = "create_step"
    /\ RunStep(CreateSteps, step, "create_standard_user", CurrentUser, "created")
    /\ UNCHANGED <<uiVars, formVars, is_running, cfgVars, batch, idx, driver, stopAt>>

\* Variant of NextIdx that stays on the same record.
NextIdx_stuck(i) == i

\* The for loop advances to the next record.
NextIdx(i) == i + 1

\* Variant of LvcBreaks without the debug break.
LvcBreaks_never == FALSE

\* After create_standard_user returned in the LVC loop: debug mode leaves it.
LvcBreaks == debug_mode

\* The rest of a loop body after create_standard_user returned.
created ==
    /\ pc = "created"
    /\ IF batch = "lvc"
       THEN IF LvcBreaks
            THEN /\ events' = Emit(events, <<"--- DEBUG MODE: Halting after first LVC user. ---">>)
                 /\ idx' = idx
                 /\ pc' = "std_gate"
            ELSE /\ events' = events
                 /\ idx' = NextIdx(idx)
                 /\ pc' = "lvc_loop"
       ELSE /\ events' = events
            /\ idx' = NextIdx(idx)
            /\ pc' = "std_loop"
    /\ UNCHANGED <<uiVars, formVars, is_running, cfgVars, batch, step, exc, driver, ops, calls, stopAt>>

\* "if not self.debug_mode:" with its checkpoint and the "Step 3" line.
std_gate ==
    /\ pc = "std_gate"
    /\ IF debug_mode
       THEN /\ pc' = "complete"
            /\ UNCHANGED <<events, batch, idx>>
       ELSE IF ~is_running
       THEN /\ pc' = "finally"
            /\ UNCHANGED <<events, batch, idx>>
       ELSE /\ events' = Emit(events, <<"Step 3: Processing Standard users...">>)
            /\ batch' = "std"
            /\ idx' = 1
            /\ pc' = "std_loop"
    /\ UNCHANGED <<uiVars, formVars, is_running, cfgVars, step, exc, driver, ops, calls, stopAt>>

std_loop ==
    /\ pc = "std_loop"
    /\ pc' = LoopHead(standard_users, idx, "complete")
    /\ UNCHANGED <<uiVars, formVars, is_running, cfgVars, loopVars, exc, driver, histVars>>

\* Variant of complete that emits the line without looking at the flag.
complete_always ==
    /\ pc = "complete"
    /\ events' = Emit(events, <<"Automation complete!">>)
    /\ pc' = "finally"
    /\ UNCHANGED <<uiVars, formVars, is_running, cfgVars, loopVars, exc, driver, ops, calls,
                   stopAt>>

\* "if self.is_running: Automation complete!"
complete ==
    /\ pc = "complete"
    /\ events' = IF is_running THEN Emit(events, <<"Automation complete!">>) ELSE events
    /\ pc' = "finally"
    /\ UNCHANGED <<uiVars, formVars, is_running, cfgVars, loopVars, exc, driver, ops, calls, stopAt>>

\* Variant of except whose error signal is delivered synchronously: the emit
\* returns only when the UI thread has run the slot, which it cannot do
\* while it is blocked in thread.wait().
except_blocking ==
    /\ pc = "except"
    /\ window = "open"
    /\ events' = events \o <<ErrorLine(exc), ErrorSignal(exc)>>
    /\ uiQueue' = Append(uiQueue, "error")
    /\ exc' = NoExc
    /\ pc' = "finally"
    /\ UNCHANGED <<window, controls_enabled, automation_thread, worker, dialog,
                   preflight, formVars, is_running, cfgVars, loopVars, driver, ops, calls,
                   stopAt>>

\* "except Exception as e": the [ERROR] progress line, then the error signal.
except ==
    /\ pc = "except"
    /\ events' = events \o <<ErrorLine(exc), ErrorSignal(exc)>>
    /\ uiQueue' = Append(uiQueue, "error")
    /\ exc' = NoExc
    /\ pc' = "finally"
    /\ UNCHANGED <<window, controls_enabled, automation_thread, worker, dialog,
                   preflight, formVars, is_running, cfgVars, loopVars, driver, ops, calls, stopAt>>

\* Variant of FinallyCloses that closes only a driver that has a page.
FinallyCloses_ifPage == driver.page

\* "if self.driver:" of the finally clause.
FinallyCloses == driver.obj

\* What BrowserDriver.close can do: browser.close() and playwright.stop()
\* are called for the fields that are set, and either may raise.
CloseOutcomes ==
    {"ok"} \cup (IF driver.browser THEN {"browser_close_raises"} ELSE {})
           \cup (IF driver.playwright THEN {"stop_raises"} ELSE {})

\* The calls of one execution of BrowserDriver.close.
CloseCalls(outcome) ==
    <<Call("close", NoUser)>> \o
    (IF driver.browser
     THEN <<Call("browser.close", NoUser),
            IF outcome = "browser_close_raises"
            THEN Raise("browser.close", NoUser) ELSE Ret("browser.close", NoUser)>>
     ELSE <<>>) \o
    (IF driver.playwright /\ outcome # "browser_close_raises"
     THEN <<Call("playwright.stop", NoUser),
            IF outcome = "stop_raises"
            THEN Raise("playwright.stop", NoUser) ELSE Ret("playwright.stop", NoUser)>>
     ELSE <<>>) \o
    <<IF outcome = "ok" THEN Ret("close", NoUser) ELSE Raise("close", NoUser)>>

\* The finally clause: driver.close(), then the finished signal.  An
\* exception of close() leaves run() before the signal is emitted.
finally ==
    /\ pc = "finally"
    /\ IF FinallyCloses
       THEN \E outcome \in CloseOutcomes:
               LET closed == IF driver.browser /\ outcome # "browser_close_raises"
                             THEN <<Prog("Browser closed.")>> ELSE <<>>
               IN  /\ calls' = calls \o CloseCalls(outcome)
                   /\ IF outcome = "ok"
                      THEN /\ events' = events \o closed \o <<FinishedSignal>>
                           /\ uiQueue' = Append(uiQueue, "finished")
                           /\ pc' = "done"
                      ELSE /\ events' = events \o closed
                           /\ uiQueue' = uiQueue
                           /\ pc' = "crashed"
       ELSE /\ calls' = calls
            /\ events' = Append(events, FinishedSignal)
            /\ uiQueue' = Append(uiQueue, "finished")
            /\ pc' = "done"
    /\ UNCHANGED <<window, controls_enabled, automation_thread, worker, dialog,
                   preflight, formVars, is_running, cfgVars, loopVars, exc, driver, ops, stopAt>>

----------------------------------------------------------------------------
Next ==
    \/ start_automation
    \/ on_automation_error
    \/ on_automation_finished
    \/ closeEvent
    \/ closeEvent_accept
    \/ run_begin
    \/ launch
    \/ login
    \/ login_step
    \/ settle
    \/ lvc_begin
    \/ lvc_loop
    \/ create
    \/ create_step
    \/ created
    \/ std_gate
    \/ std_loop
    \/ complete
    \/ except
    \/ finally

Spec == Init /\ [][Next]_vars

\* The steps of the worker thread.
WorkerNext ==
    \/ run_begin
    \/ launch
    \/ login
    \/ login_step
    \/ settle
    \/ lvc_begin
    \/ lvc_loop
    \/ create
    \/ create_step
    \/ created
    \/ std_gate
    \/ std_loop
    \/ complete
    \/ except
    \/ finally

\* Scheduling: the worker thread keeps running, and every page operation is
\* given a timeout, so each of its steps returns or raises; the event loop of
\* the open window delivers the queued signals; thread.wait() returns once
\* the thread has ended.  The operator is never obliged to click.
FairSpec ==
    /\ Spec
    /\ WF_vars(WorkerNext)
    /\ WF_vars(on_automation_error)
    /\ WF_vars(on_automation_finished)
    /\ WF_vars(closeEvent_accept)

----------------------------------------------------------------------------
\* The field values of create_standard_user.  Strings are sequences of
\* characters; a cell that pandas read as empty is NaN.

Whitespace == {" ", "\t"}
NameChars == {"a", " "}
CurrencyChars == {"U", "(", " ", "\t"}
NaN == <<"NaN">>

\* The strings over alphabet of a length from lo to hi.
Strings(alphabet, lo, hi) == UNION {[1..n -> alphabet] : n \in lo..hi}

\* The records parse_user_data can hand over: dropna keeps the rows whose
\* Currency cell is not empty; Username and Postfix cells may be empty.
UserRecords ==
    [Username : Strings(NameChars, 0, MaxNameLen) \cup {NaN},
     Postfix  : Strings(NameChars, 0, MaxNameLen) \cup {NaN},
     Currency : Strings(CurrencyChars, 1, MaxCurrencyLen)]

\* str(value), and the formatting of a value inside an f-string: a string is
\* taken as it is, NaN becomes "nan".
Str(value) == IF value = NaN THEN <<"n", "a", "n">> ELSE value

\* s.split(sep)[0] with a one-character separator: the part of s in front of
\* the first sep, the whole of s when there is none.
RECURSIVE SplitFirst(_, _)
SplitFirst(s, sep) ==
    IF s = <<>> \/ Head(s) = sep THEN <<>>
    ELSE <<Head(s)>> \o SplitFirst(Tail(s), sep)

\* Variant of FormatUsername that puts a separator between the two fields.
FormatUsername_separator(u) == Str(u.Username) \o <<"_">> \o Str(u.Postfix)

\* username = f"{user_details['Username']}{user_details['Postfix']}"
FormatUsername(u) == Str(u.Username) \o Str(u.Postfix)

\* currency_code = str(user_details['Currency']).split(' ')[0]
CurrencyCode(u) == SplitFirst(Str(u.Currency), " ")

\* The two assignments at the head of create_standard_user.
prepare_fields ==
    /\ form.stage = "none"
    /\ form' = [form EXCEPT !.stage = "prepared",
                            !.username = FormatUsername(user_details),
                            !.currency_code = CurrencyCode(user_details)]
    /\ UNCHANGED <<runVars, user_details>>

\* username_input.fill(username)
fill_username ==
    /\ form.stage = "prepared"
    /\ form' = [form EXCEPT !.stage = "filled", !.filled = form.username]
    /\ UNCHANGED <<runVars, user_details>>

\* currency_dropdown.select_option(label=currency_code)
select_currency ==
    /\ form.stage = "filled"
    /\ form' = [form EXCEPT !.stage = "selected", !.selected = form.currency_code]
    /\ UNCHANGED <<runVars, user_details>>

InitFields ==
    /\ InitRun
    /\ user_details \in UserRecords
    /\ form = NoForm

NextFields ==
    \/ prepare_fields
    \/ fill_username
    \/ select_currency

SpecFields == InitFields /\ [][NextFields]_vars

----------------------------------------------------------------------------
\* Views of the history of the current run.

\* The records passed to create_standard_user, in call order.
Created ==
    LET cs == CallsOf("create_standard_user")
    IN  [k \in 1..Len(cs) |-> cs[k].user]

IsPrefix(a, b) == Len(a) <= Len(b) /\ \A k \in 1..Len(a): a[k] = b[k]

\* No driver method raised and no page operation failed.
NoFailure ==
    /\ \A k \in 1..Len(calls): calls[k].ev # "raise"
    /\ \A k \in 1..Len(ops): ops[k].result = "ok"

EventsOf(kind) == SelectSeq(events, LAMBDA e: e.kind = kind)

IsCreateCall(c) == c.ev = "call" /\ c.fn = "create_standard_user"

----------------------------------------------------------------------------
\* C1: in a non-debug run the records passed to create_standard_user are at
\* every moment a prefix of lvc_users followed by standard_users, and a run
\* that ended with no failed operation and the cancel flag never set has
\* passed exactly all M + N of them, LVC first, each batch in list order.
C1_AllRecordsInOrder ==
    ~debug_mode =>
        LET cs == Created IN
        /\ IsPrefix(cs, lvc_users \o standard_users)
        /\ (RunEnded /\ is_running /\ NoFailure) =>
               cs = lvc_users \o standard_users

C1_Witness ==
    /\ ~debug_mode /\ pc = "done" /\ is_running /\ NoFailure
    /\ Len(lvc_users) = 2 /\ Len(standard_users) = 2
    /\ Len(Created) = 4

\* C2: in debug mode create_standard_user is called at most once, only on the
\* first LVC record, never on a standard record, whatever the operations do.
C2_DebugAtMostFirstLvc ==
    debug_mode =>
        LET cs == Created IN
        /\ Len(cs) <= 1
        /\ \A k \in 1..Len(cs): cs[k] = [batch |-> "lvc", pos |-> 1]
        /\ (Len(lvc_users) = 0 => Len(cs) = 0)

C2_Witness ==
    /\ debug_mode /\ RunEnded
    /\ Len(lvc_users) = 2 /\ Len(standard_users) = 2
    /\ Len(Created) = 1

\* Positions of run() inside an account-creation sequence, and between two
\* sequences up to the loop-head check of the next record.
InSequence == {"create_step"}
BetweenBeforeCheck == {"created", "lvc_loop", "std_gate", "std_loop"}

\* run() has passed the loop-head check and is about to call
\* create_standard_user.
AfterCheck == {"create"}

\* The run emitted no error signal.
NoErrorSignal == Len(EventsOf("error")) = 0

\* No call of create_standard_user raised.
NoCreateRaise ==
    \A k \in 1..Len(calls):
        ~(calls[k].ev = "raise" /\ calls[k].fn = "create_standard_user")

\* C3 as stated: a flag set while a sequence is in progress, or anywhere
\* between two sequences, lets no further sequence start, and the run emits
\* no error signal once the sequence in progress has returned.
C3_Original ==
    (stopAt.pc \in InSequence \cup BetweenBeforeCheck \cup AfterCheck
        /\ stopAt.created >= 1) =>
        /\ NumCreate = stopAt.created
        /\ (NoCreateRaise => NoErrorSignal)

\* C3 amended: a flag set while a sequence is in progress, or between two
\* sequences before the loop-head check of the next record, lets no further
\* sequence start in either batch, and the run emits no error signal when the
\* sequence in progress returned; a flag set after that check has passed lets
\* exactly the one sequence already selected start, and none after it.
C3_StopHaltsBatches ==
    /\ (stopAt.pc \in InSequence \cup BetweenBeforeCheck) =>
           /\ NumCreate = stopAt.created
           /\ (NoCreateRaise => NoErrorSignal)
    /\ (stopAt.pc \in AfterCheck) =>
           /\ NumCreate <= stopAt.created + 1
           /\ (pc # "create" => NumCreate = stopAt.created + 1)

C3_Witness ==
    /\ stopAt.pc = "create_step" /\ stopAt.created = 1
    /\ Len(lvc_users) = 2 /\ Len(standard_users) = 2 /\ ~debug_mode
    /\ pc = "done" /\ NoFailure /\ NumCreate = 1

\* C4: BrowserDriver.close is called exactly once by the time run() is left,
\* on every way of leaving it, and never before; browser.close() and
\* playwright.stop() are each called at most once.
C4_TeardownExactlyOnce ==
    /\ RunEnded => Len(CallsOf("close")) = 1
    /\ ~RunEnded => Len(CallsOf("close")) = 0
    /\ Len(CallsOf("browser.close")) <= 1
    /\ Len(CallsOf("playwright.stop")) <= 1

C4_Witness ==
    /\ RunEnded /\ window = "closing" /\ stopAt.pc = "started"
    /\ Len(CallsOf("close")) = 1

\* A driver method called by run() raised into run().
FatalError ==
    \E k \in 1..Len(calls):
        /\ calls[k].ev = "raise"
        /\ calls[k].fn \in {"launch", "login", "wait_for_page_to_settle",
                            "create_standard_user"}

\* C5 as stated: once run() is left its events are progress lines, then at
\* most one error signal, then exactly one completion signal, which is the
\* last event; a fatal error has produced the error signal with the matching
\* [ERROR] progress line right before it.
C5_EventOrder ==
    RunEnded =>
        LET n == Len(events) IN
        /\ Len(EventsOf("finished")) = 1
        /\ events[n].kind = "finished"
        /\ Len(EventsOf("error")) <= 1
        /\ \A k \in 1..n:
               events[k].kind = "error" =>
                   /\ k = n - 1
                   /\ k > 1
                   /\ events[k - 1] = [events[k] EXCEPT !.kind = "progress",
                                                        !.tag = "[ERROR]"]
        /\ FatalError => Len(EventsOf("error")) = 1

\* The approval wait of login ran into its timeout.
ApprovalTimedOut ==
    \E k \in 1..Len(ops): ops[k].target = "not_okta" /\ ops[k].result = "timeout"

\* The scripted operations other than the approval wait.
OtherSteps ==
    {LoginSteps[k] : k \in (1..Len(LoginSteps)) \ {ApprovalStep}}
        \cup {SettleStep} \cup {CreateSteps[k] : k \in 1..Len(CreateSteps)}

\* The type names reported for a timeout or failure of any other operation.
OtherFailureTypes ==
    UNION {{TypeName(st.op, c) : c \in Causes(st.op)} : st \in OtherSteps}

\* C6 as stated: when the approval wait times out the run reports an error
\* whose type no other timeout or navigation failure reports, starts no
\* account-creation sequence and emits the completion signal exactly once.
C6_MfaTimeoutDistinct ==
    ApprovalTimedOut =>
        /\ NumCreate = 0
        /\ \A k \in 1..Len(events):
               events[k].kind = "error" => events[k].type \notin OtherFailureTypes
        /\ RunEnded =>
               /\ Len(EventsOf("error")) = 1
               /\ Len(EventsOf("finished")) = 1

\* The two bounded waits of the push-selection branch of login.
IsPushWait(o) == o.op = "expect" /\ o.target \in {"push_option", "push_sent"}

InfoLine == Prog("[INFO] Assuming push was sent")

\* C7: a failed wait for the push-selection control or for the push-sent
\* confirmation is not reported by an error signal; the [INFO] progress line
\* is logged and the next page operation of the run is the approval wait.
C7_PushBranchSwallowed ==
    \A k \in 1..Len(ops):
        (IsPushWait(ops[k]) /\ ops[k].result # "ok") =>
            /\ \E j \in 1..Len(events): events[j] = InfoLine
            /\ \A j \in 1..Len(events):
                   events[j].kind = "error" => events[j].detail # ops[k].target
            /\ pc # "except" \/ exc.detail # ops[k].target
            /\ IF k = Len(ops)
               THEN pc = "login_step" /\ step = ApprovalStep
               ELSE ops[k + 1].op = "wait_for_url"

C7_Witness ==
    /\ \E k \in 1..(Len(ops) - 1):
          /\ ops[k] = [op |-> "expect", target |-> "push_sent", result |-> "timeout"]
          /\ ops[k + 1] = [op |-> "wait_for_url", target |-> "not_okta", result |-> "ok"]
    /\ NumCreate >= 1
    /\ NoErrorSignal /\ pc = "done"

\* C8: login is called at most once in a run, and before every call of
\* create_standard_user login has been called exactly once and returned, the
\* settle wait has returned after it, and no driver method has raised.
C8_LoginAndSettleFirst ==
    /\ Len(CallsOf("login")) <= 1
    /\ \A k \in 1..Len(calls):
           IsCreateCall(calls[k]) =>
               /\ \E i \in 1..(k - 1):
                      /\ calls[i] = Ret("login", NoUser)
                      /\ \E j \in (i + 1)..(k - 1):
                             calls[j] = Ret("wait_for_page_to_settle", NoUser)
               /\ Cardinality({i \in 1..(k - 1): calls[i] = Call("login", NoUser)}) = 1
               /\ \A i \in 1..(k - 1): calls[i].ev # "raise"

C8_Witness ==
    /\ NumCreate = 2 /\ RunEnded
    /\ \E k \in 1..Len(ops): IsPushWait(ops[k]) /\ ops[k].result # "ok"

\* No record occurs twice in the sequence of records cs.
Distinct(cs) == \A i, j \in 1..Len(cs): i # j => cs[i] # cs[j]

\* Operation k of the run failed inside an account-creation sequence.
FailedInCreate(k) ==
    /\ ops[k].result # "ok"
    /\ ops[k].target \notin {"push_option", "push_sent"}
    /\ NumCreate >= 1

\* C9: once a step of an account-creation sequence has failed, no page
\* operation follows it (no retry, no later record, no compensating action),
\* no record was passed twice, the pending exception reaches the error
\* signal, and the run is left with exactly one error signal emitted.
C9_CreateFailureHaltsRun ==
    \A k \in 1..Len(ops):
        FailedInCreate(k) =>
            /\ k = Len(ops)
            /\ Distinct(Created)
            /\ \A i \in 1..Len(calls):
                   (calls[i].ev = "raise" /\ calls[i].fn = "create_standard_user") =>
                       \A j \in (i + 1)..Len(calls): ~IsCreateCall(calls[j])
            /\ pc \in {"except", "finally", "done", "crashed"}
            /\ pc = "except" => exc.detail = ops[k].target
            /\ pc # "except" =>
                   /\ Len(EventsOf("error")) = 1
                   /\ EventsOf("error")[1].detail = ops[k].target

C9_Witness ==
    /\ ops # <<>>
    /\ Last(ops) = [op |-> "expect", target |-> "success_text", result |-> "timeout"]
    /\ Created = <<[batch |-> "lvc", pos |-> 1]>>
    /\ Len(lvc_users) = 2 /\ Len(standard_users) = 2 /\ ~debug_mode
    /\ RunEnded /\ is_running

\* C10: no record is passed to create_standard_user twice in one run.
C10_NoRecordTwice == Distinct(Created)

C10_Witness ==
    /\ Len(Created) = 4 /\ RunEnded
    /\ Len(lvc_users) = 2 /\ Len(standard_users) = 2

----------------------------------------------------------------------------
\* C11: when the last pre-flight check read a credentials file of fewer than
\* two lines or a workbook that is not a valid user table, the failure is
\* shown in a message box, no worker and no thread exist, nothing of a run
\* has happened (no driver, no driver call, run() not entered) and the input
\* controls are enabled.
C11_PreflightFailureStartsNothing ==
    (preflight.table # "" /\ (Len(preflight.lines) < 2 \/ preflight.table # "ok")) =>
        /\ dialog = "file"
        /\ worker = "none"
        /\ automation_thread = "none"
        /\ pc = "idle"
        /\ driver = NoDriver
        /\ calls = <<>>
        /\ controls_enabled

C11_Witness ==
    /\ preflight = [lines |-> <<"email">>, table |-> "ok"]
    /\ dialog = "file"
    /\ controls_enabled

----------------------------------------------------------------------------
\* The first whitespace-delimited token of s: leading whitespace skipped,
\* then everything up to the next whitespace character.
RECURSIVE SkipWhitespace(_)
SkipWhitespace(s) ==
    IF s # <<>> /\ Head(s) \in Whitespace THEN SkipWhitespace(Tail(s)) ELSE s

RECURSIVE UpToWhitespace(_)
UpToWhitespace(s) ==
    IF s = <<>> \/ Head(s) \in Whitespace THEN <<>>
    ELSE <<Head(s)>> \o UpToWhitespace(Tail(s))

FirstToken(s) == UpToWhitespace(SkipWhitespace(s))

\* C12: once the currency option has been selected for a record whose
\* Currency holds a token at all, the selected label is the first
\* whitespace-delimited token of Currency, leading whitespace and tabs
\* included.
C12_CurrencyFirstToken ==
    (form.stage = "selected" /\ FirstToken(user_details.Currency) # <<>>) =>
        form.selected = FirstToken(user_details.Currency)

----------------------------------------------------------------------------
\* The page operations that act on an element.
IsAction(o) == o.op \in {"fill", "click", "select_option"}

\* C14: every fill, click and select_option issued so far comes directly
\* after a visibility wait on the same target that succeeded.
C14_ActionsAfterVisibilityWait ==
    \A k \in 1..Len(ops):
        IsAction(ops[k]) =>
            /\ k > 1
            /\ ops[k - 1] = [op |-> "expect", target |-> ops[k].target, result |-> "ok"]

----------------------------------------------------------------------------
\* launch has returned; close has been called.
LaunchReturned == \E k \in 1..Len(calls): calls[k] = Ret("launch", NoUser)
TeardownBegun == \E k \in 1..Len(calls): calls[k] = Call("close", NoUser)

\* C15: a step that issues a page operation is taken only after launch has
\* returned (the page exists) and before close is called, and it does not
\* begin the teardown itself.
C15_PageOpsBetweenLaunchAndTeardown ==
    [][Len(ops') > Len(ops) =>
          /\ LaunchReturned
          /\ driver.page
          /\ ~TeardownBegun
          /\ ~TeardownBegun']_vars

C15_Witness ==
    /\ pc = "done"
    /\ Len(ops) > Len(LoginSteps)
    /\ LaunchReturned
    /\ TeardownBegun

----------------------------------------------------------------------------
\* C16: while a worker exists, its thread runs, run() has been entered and
\* not yet cleaned up after, or one of its signals waits to be handled, the
\* controls are disabled and start_automation cannot be taken.
C16_OneWorkerAtATime ==
    (worker = "alive" \/ automation_thread = "running" \/ pc # "idle" \/ uiQueue # <<>>) =>
        /\ ~controls_enabled
        /\ ~ENABLED start_automation

C16_Witness ==
    /\ pc = "done"
    /\ uiQueue = <<"finished">>
    /\ window = "open"
    /\ ~controls_enabled

----------------------------------------------------------------------------
\* Positions of run() at which a phase or an account-creation sequence
\* begins: launch, login, the settle wait, the LVC batch, a sequence.  The
\* standard batch begins with the step from std_gate to std_loop.
PhaseEntries == {"launch", "login", "settle", "lvc_begin", "create"}

\* C17: a step the worker takes while the flag is down never enters a phase,
\* a batch or an account-creation sequence.  From a position that reads the
\* flag it goes to the finally clause, passing at most the end of the loop
\* and the remaining reads; a phase that was in progress ends at the finally
\* clause too (or at the except clause when it failed).  A flag cleared
\* before the read in front of launch means launch is never called.
C17_CancelledStartsNothing ==
    [][(~is_running /\ pc # "idle" /\ pc' # pc) =>
          /\ pc' \notin PhaseEntries
          /\ ~(pc = "std_gate" /\ pc' = "std_loop")
          /\ pc = "started" => pc' = "finally"
          /\ pc \in {"launch", "login_step", "settle"} => pc' \in {"finally", "except"}
          /\ pc = "lvc_loop" => pc' = "std_gate"
          /\ pc = "std_gate" => pc' \in {"complete", "finally"}
          /\ pc = "std_loop" => pc' = "complete"
          /\ pc = "complete" => pc' = "finally"
          /\ stopAt.pc = "started" => \A k \in 1..Len(calls'): calls'[k].fn # "launch"
      ]_vars

C17_Witness ==
    /\ pc = "done"
    /\ stopAt.pc = "launch"
    /\ LaunchReturned
    /\ CallsOf("login") = <<>>
    /\ TeardownBegun
    /\ Last(events) = FinishedSignal

----------------------------------------------------------------------------
\* C18: a step of the worker inside login or inside an account-creation
\* sequence issues the operation the script has at that place, whatever the
\* flag is; the method is left only by the failure of an operation or after
\* its last operation succeeded.
C18_SequenceNotInterrupted ==
    [][(pc \in {"login_step", "create_step"} /\ (pc' # pc \/ step' # step)) =>
          LET steps == IF pc = "login_step" THEN LoginSteps ELSE CreateSteps
              o == ops'[Len(ops')]
          IN  /\ Len(ops') = Len(ops) + 1
              /\ o.op = steps[step].op
              /\ o.target = steps[step].target
              /\ \/ pc' = pc /\ step' > step
                 \/ pc' = "except" /\ o.result # "ok"
                 \/ pc' \notin {pc, "except"} /\ step = Len(steps) /\ o.result = "ok"
      ]_vars

C18_Witness ==
    /\ stopAt.pc = "create_step"
    /\ ~is_running
    /\ pc = "done"
    /\ stopAt.created = 2
    /\ \E k \in 1..Len(calls):
          calls[k] = Ret("create_standard_user", Created[stopAt.created])

----------------------------------------------------------------------------
\* The targets of login steps 1 to 3: the navigation, the e-mail field and
\* Next, the password field and Verify.
EarlyLoginTargets == {"login_url", "email", "next", "password", "verify"}

\* C19: once an operation of login steps 1 to 3 has failed, it is the last
\* page operation of the run and every operation before it was issued once,
\* in script order (no retry, no push branch, no approval wait); login has
\* raised, no account-creation sequence is started, the exception reaches
\* the error signal, which is emitted exactly once, and a run that was left
\* has called close exactly once.
C19_EarlyLoginFailureHaltsRun ==
    \A k \in 1..Len(ops):
        (ops[k].result # "ok" /\ ops[k].target \in EarlyLoginTargets) =>
            /\ k = Len(ops)
            /\ \A j \in 1..k:
                  ops[j].op = LoginSteps[j].op /\ ops[j].target = LoginSteps[j].target
            /\ \E c \in 1..Len(calls): calls[c] = Raise("login", NoUser)
            /\ NumCreate = 0
            /\ pc \in {"except", "finally", "done", "crashed"}
            /\ pc = "except" => exc.detail = ops[k].target
            /\ pc # "except" =>
                  /\ Len(EventsOf("error")) = 1
                  /\ EventsOf("error")[1].detail = ops[k].target
            /\ RunEnded => Len(CallsOf("close")) = 1

C19_Witness ==
    /\ pc = "done"
    /\ ops # <<>>
    /\ Last(ops) = [op |-> "expect", target |-> "password", result |-> "timeout"]
    /\ Len(EventsOf("error")) = 1
    /\ Last(events) = FinishedSignal

----------------------------------------------------------------------------
\* The "Automation complete!" line has been emitted.
Completed == \E k \in 1..Len(events): events[k] = Prog("Automation complete!")

\* The records a run has to create: all of both lists, in debug mode the
\* first LVC record if there is one.
Eligible ==
    IF debug_mode
    THEN (IF lvc_users = <<>> THEN <<>> ELSE <<lvc_users[1]>>)
    ELSE lvc_users \o standard_users

\* The records for which create_standard_user returned, in order.
Succeeded ==
    LET rs == SelectSeq(calls, LAMBDA c: c.ev = "ret" /\ c.fn = "create_standard_user")
    IN  [k \in 1..Len(rs) |-> rs[k].user]

\* C20: when "Automation complete!" has been emitted, the run has emitted no
\* error signal, create_standard_user has returned for exactly the eligible
\* records and raised for none, and the flag was not cleared before the last
\* read of it (it is still up, or stop() came when run() was already in its
\* finally clause or left).
C20_CompleteOnlyAfterFullSuccess ==
    Completed =>
        /\ NoErrorSignal
        /\ exc = NoExc
        /\ Succeeded = Eligible
        /\ NoCreateRaise
        /\ stopAt = NotStopped \/ stopAt.pc \in {"finally", "done", "crashed"}

C20_Witness ==
    /\ Completed
    /\ debug_mode
    /\ Len(lvc_users) = 2
    /\ Len(standard_users) = 1
    /\ Succeeded = <<lvc_users[1]>>
    /\ pc = "done"

----------------------------------------------------------------------------
\* The completion signal has been emitted in the current run.
FinishedEmitted == \E k \in 1..Len(events): events[k] = FinishedSignal

\* C21 as stated: every started run eventually emits the completion signal,
\* and the controls are eventually enabled again unless the window has been
\* closed in the meantime; a failure of close() in the finally clause is one
\* of the outcomes.
C21_RunEventuallyFinishes ==
    /\ (pc = "started") ~> FinishedEmitted
    /\ (pc = "started") ~> (controls_enabled \/ window # "open")

----------------------------------------------------------------------------
\* C22: closeEvent blocks only with a running thread and has cleared the
\* flag when it does; the wait does not last forever (the window is not
\* "closing" from some moment on without end); when the wait returns, run()
\* has been left and close has been called; and after the flag was cleared
\* the worker begins no phase and no account-creation sequence, except the
\* one it stood in front of with the read of the flag behind it.
C22_CloseWaitsForTeardown ==
    /\ [][(window = "open" /\ window' = "closing") =>
             (automation_thread = "running" /\ ~is_running')]_vars
    /\ []<>(window # "closing")
    /\ [][(window = "closing" /\ window' = "closed") =>
             (RunEnded /\ TeardownBegun)]_vars
    /\ [](stopAt # NotStopped =>
             PhasesBegun <= stopAt.phases +
                 (IF stopAt.pc \in {"launch", "login", "settle", "create"} THEN 1 ELSE 0))

C22_Witness ==
    /\ window = "closed"
    /\ stopAt.pc = "create_step"
    /\ ~is_running
    /\ pc = "done"
    /\ TeardownBegun
    /\ NumCreate = stopAt.created

====
